---- MODULE Spec2Model ----
(***************************************************************************)
(* Model of the metadata cache engine of plex-bot (src/media_cache.py,     *)
(* class MediaCache) and of its callers in src/cogs/media_commands.py.     *)
(*                                                                         *)
(* The program runs on one asyncio event loop: the code between two await  *)
(* points that really suspend is one atomic step.  Each action below is    *)
(* one such segment of one task.                                           *)
(*                                                                         *)
(* Spec      : the cache object shared by the initialize task and the      *)
(*             command tasks (lock, validity, refresh, save).              *)
(* FairSpec  : Spec with weak fairness of every task step (every remote    *)
(*             call and disk operation returns, the loop keeps running).   *)
(* SpecValid : is_cache_valid applied to arbitrary inputs.                 *)
(* SpecFetch : the per-library batches of _process_library and the global  *)
(*             semaphore of _fetch_item_metadata.                          *)
(* SpecCollect: SpecFetch with short listings and a log of the failures.   *)
(* SpecBatch : one library whose listing is longer than a batch.           *)
(* SpecFilter: _filter_quality_items applied to arbitrary lists of records.*)
(* SpecQuery : the filters, ordering and pagination of get_items, and      *)
(*             search.                                                     *)
(* SpecStore : load_cache_from_disk and save_cache_to_disk at the level of *)
(*             records and files, with process crashes.                    *)
(***************************************************************************)
EXTENDS Integers, Sequences, FiniteSets, TLC

(***************************************************************************)
(* Bounds                                                                  *)
(***************************************************************************)
NumCallers == 2       \* command tasks running next to the initialize task
NumItems == 2         \* rating keys the remote catalog can hold
MaxTime == 3          \* clock ticks
UpdateInterval == 2   \* update_interval, in clock ticks
NumLibraries == 2     \* libraries processed concurrently by one gather
MaxLibItems == 6      \* rating keys listed by one library

(***************************************************************************)
(* Program constants                                                       *)
(***************************************************************************)
SemaphoreSize == 10   \* asyncio.Semaphore(10)
batch_size == 20      \* batch_size = 20 in _process_library

InitTask == 0
Callers == 1..NumCallers
Tasks == {InitTask} \cup Callers
Catalog == 1..NumItems
Libraries == 1..NumLibraries

LazyOps == {"get_items"}
Ops == LazyOps \cup {"refresh_cache"}

VARIABLES
  \* ---- MediaCache fields -------------------------------------------------
  media_items,    \* set of rating keys held by the in-memory snapshot
  last_updated,   \* <<>> (None) or <<t>>
  cache_lock,     \* [holder |-> {} or {task}, waiters |-> FIFO of tasks]
  cache_file,     \* [kind |-> "absent" | "corrupt" | "json", data |-> keys]
  now,            \* datetime.now()
  \* ---- one record per task -----------------------------------------------
  pc,             \* await point the task is suspended at
  op,             \* the public operation the task runs
  items_list,     \* save_cache_to_disk: the copy taken under the lock
  \* ---- observers ----------------------------------------------------------
  fetched,        \* the task's call entered _fetch_all_media_items
  swapped,        \* the task's call replaced media_items
  failed,         \* "none" | "probe" | "listing": where its refresh failed
  overlap,        \* another lazy caller entered the pipeline during the call
  last_good,      \* the records of the last load or swap
  last_return,    \* the call that ended in the last step, if one did
  \* ---- SpecValid ----------------------------------------------------------
  valid,          \* <<>> or <<value returned by is_cache_valid>>
  \* ---- SpecFetch ----------------------------------------------------------
  sem_value,      \* free permits of self.semaphore
  lib_pc,         \* per library: "list" | "batch" | "sleep" | "done"
  rating_keys,    \* per library: keys not yet put in a batch
  batch_waiting,  \* per library: fetches of the batch waiting for a permit
  batch_inflight, \* per library: fetches of the batch inside get_metadata
  library_items,  \* per library: records collected so far
  fetch_log,      \* per library: what its listing and its fetches returned;
                  \* <<>> where it is not kept
  \* ---- SpecFilter, SpecQuery ---------------------------------------------
  call,           \* the function applied and its arguments
  ret,            \* the values it returned, oldest first; a call that
                  \* raised returns <<<<>>, "TypeError">>
  \* ---- SpecStore ----------------------------------------------------------
  snapshot,       \* self.media_items as a dict: sequence of <<key, record>>
  final_file,     \* the file at cache_file_path
  temp_file,      \* the file at cache_file_path.with_suffix(".tmp")
  save_pc,        \* position of the task inside save_cache_to_disk
  save_list,      \* items_list of save_cache_to_disk
  saved,          \* the last save_cache_to_disk call: the final file it
                  \* found, the records it was to save, whether it ended
                  \* without an error, whether a load has followed it
  loaded          \* how load_cache_from_disk ended in this process

cacheVars == <<media_items, last_updated, cache_lock, cache_file, now>>
taskVars == <<pc, op, items_list>>
obsVars == <<fetched, swapped, failed, overlap, last_good, last_return>>
fetchVars == <<sem_value, lib_pc, rating_keys, batch_waiting, batch_inflight,
               library_items, fetch_log>>
pureVars == <<call, ret>>
storeVars == <<snapshot, final_file, temp_file, save_pc, save_list, saved,
               loaded>>
vars == <<cacheVars, taskVars, obsVars, valid, fetchVars, pureVars,
         storeVars>>

(***************************************************************************)
(* Pure helpers                                                            *)
(***************************************************************************)
is_cache_valid_le(items, lu, t) ==
  IF items = {} THEN FALSE
  ELSE IF lu = <<>> THEN FALSE
  ELSE (t - lu[1]) <= UpdateInterval

\* MediaCache.is_cache_valid
is_cache_valid(items, lu, t) ==
  IF items = {} THEN FALSE
  ELSE IF lu = <<>> THEN FALSE
  ELSE (t - lu[1]) < UpdateInterval

\* an initialize that fetches whatever it has loaded
InitialFetchAlways(items) == TRUE

\* MediaCache.initialize fetches: "if not self.media_items"
NeedsInitialFetch(items) == items = {}

\* a read that calls update_cache whatever is_cache_valid says
EnsureUpdatesAlways(items, lu, t) == TRUE

\* MediaCache.ensure_cache_valid calls update_cache: only when the store is
\* not valid
EnsureUpdates(items, lu, t) == ~is_cache_valid(items, lu, t)

\* asyncio.Lock.acquire returns at once only when the lock is free and
\* nobody is queued for it
LockIgnored(lock) == TRUE

LockFree(lock) == lock.holder = {} /\ lock.waiters = <<>>

Acquired(lock, t) == [lock EXCEPT !.holder = {t}]

Enqueued(lock, t) == [lock EXCEPT !.waiters = Append(@, t)]

\* asyncio.Lock.release: the first waiter, if any, is the next holder
Released(lock) ==
  IF lock.waiters = <<>> THEN [lock EXCEPT !.holder = {}]
  ELSE [holder |-> {Head(lock.waiters)}, waiters |-> Tail(lock.waiters)]

InQueue(lock, t) == \E i \in 1..Len(lock.waiters) : lock.waiters[i] = t

\* the task was handed the lock it queued for
Woken(t) == cache_lock.holder = {t} /\ ~InQueue(cache_lock, t)

\* update_cache / initialize: "if new_items:" guards the swap
NewSnapshotUnguarded(new_items, old) == new_items

NewSnapshotMerged(new_items, old) ==
  IF new_items # {} THEN new_items \cup old ELSE old

NewSnapshot(new_items, old) == IF new_items # {} THEN new_items ELSE old

\* a failed probe that returns with the lock still held
LockKeptAfterProbe(lock) == lock

\* update_cache: the "return" of line 103 (and the except clause of lines
\* 116-117) leaves "async with self.cache_lock", which releases the lock
LockAfterProbe(lock) == Released(lock)

\* a load that stamps the store with the time the file was written, taken
\* to be the start of the clock
LoadedAtFileTime(t) == <<0>>

\* a load that leaves the store without a timestamp
LoadedAtNever(t) == <<>>

\* load_cache_from_disk: self.last_updated = datetime.now() (line 241)
LoadedAt(t) == <<t>>

\* a refresh that stamps the store whatever it fetched
RefreshedAtAlways(new_items, lu, t) == <<t>>

\* update_cache / initialize: last_updated = datetime.now() is inside
\* "if new_items:" too
RefreshedAt(new_items, lu, t) == IF new_items # {} THEN <<t>> ELSE lu

\* update_cache: "except Exception as e: logger.error(...)"
UpdateCacheExceptReraise(r) == IF r = "raise" THEN "raised" ELSE "returned"

UpdateCacheExcept(r) == "returned"


(***************************************************************************)
(* Records and files                                                       *)
(***************************************************************************)
\* A record as _fetch_item_metadata builds it (lines 432-443); thumb and
\* last_played are read by no code of the store and are left out.  A
\* rating key is <<"int", n>> or <<"str", n>>: the integer n or the string
\* of its digits.  None is <<>>, a year y is <<y>>.
Rec(k, ti, mt, g, y, n, s, r) ==
  [rating_key |-> k, title |-> ti, media_type |-> mt, genres |-> g,
   year |-> y, play_count |-> n, summary |-> s, rating |-> r]

\* str(item["rating_key"]): the digits of the key, as the number they spell
Str(k) == k[2]

\* the lists of at most n elements of S
ListsUpTo(S, n) == UNION {[1..m -> S] : m \in 0..n}

AbsentFile == [kind |-> "absent", items |-> <<>>, closed |-> FALSE]

\* a file holding "[", the dumps of `items` and, if closed, "]"
TextFile(items, closed) ==
  [kind |-> "text", items |-> items, closed |-> closed]

\* a file holding JSON that is not a list of records with rating keys
OtherFile == [kind |-> "other", items |-> <<>>, closed |-> TRUE]

(***************************************************************************)
(* Spec: the cache object, the initialize task and the command tasks       *)
(***************************************************************************)
File(kind, data) == [kind |-> kind, data |-> data]

NoReturn ==
  [op |-> "none", outcome |-> "none", result |-> {}, fetched |-> FALSE,
   failed |-> "none"]

\* no pure function is being applied
InitNoCall ==
  /\ call = [fn |-> "none"]
  /\ ret = <<>>

\* the record-level store is not in use
InitNoStore ==
  /\ snapshot = <<>>
  /\ final_file = AbsentFile
  /\ temp_file = AbsentFile
  /\ save_pc = "idle"
  /\ save_list = <<>>
  /\ saved = [prev |-> AbsentFile, new |-> <<>>, done |-> FALSE,
              read_back |-> FALSE]
  /\ loaded = "none"

\* the cache object after __init__ and the tasks before their calls
InitCache ==
  /\ media_items = {}
  /\ last_updated = <<>>
  /\ cache_lock = [holder |-> {}, waiters |-> <<>>]
  /\ now = 0
  /\ pc = [t \in Tasks |-> "idle"]
  /\ op = [t \in Tasks |-> "none"]
  /\ items_list = [t \in Tasks |-> {}]
  /\ fetched = [t \in Tasks |-> FALSE]
  /\ swapped = [t \in Tasks |-> FALSE]
  /\ failed = [t \in Tasks |-> "none"]
  /\ overlap = [t \in Tasks |-> FALSE]
  /\ last_good = {}
  /\ last_return = NoReturn

\* no library is being processed; every permit of the semaphore is free
InitNoFetch ==
  /\ sem_value = SemaphoreSize
  /\ lib_pc = [l \in Libraries |-> "done"]
  /\ rating_keys = [l \in Libraries |-> 0]
  /\ batch_waiting = [l \in Libraries |-> 0]
  /\ batch_inflight = [l \in Libraries |-> 0]
  /\ library_items = [l \in Libraries |-> 0]
  /\ fetch_log = <<>>

Init ==
  /\ InitCache
  /\ cache_file \in {File("absent", {}), File("corrupt", {}),
                      File("json", {}), File("json", Catalog)}
  /\ valid = <<>>
  /\ InitNoFetch
  /\ InitNoCall
  /\ InitNoStore

\* The call of task t (operation o) ends with outcome oc after a refresh
\* that failed at f (or "none"); get_items (lines 161-164) reads the
\* snapshot `items` right after ensure_cache_valid returned to it.  The
\* task's locals are gone; the call is shown in last_return for one step.
Return(t, o, oc, f, items) ==
  /\ pc' = [pc EXCEPT ![t] = "done"]
  /\ op' = [op EXCEPT ![t] = "none"]
  /\ items_list' = [items_list EXCEPT ![t] = {}]
  /\ fetched' = [fetched EXCEPT ![t] = FALSE]
  /\ swapped' = [swapped EXCEPT ![t] = FALSE]
  /\ failed' = [failed EXCEPT ![t] = "none"]
  /\ overlap' = [overlap EXCEPT ![t] = FALSE]
  /\ last_return' =
       [op |-> o, outcome |-> oc,
        result |-> IF o = "get_items" /\ oc = "returned" THEN items ELSE {},
        fetched |-> fetched[t], failed |-> f]

\* the task goes on to the await point p
Goto(t, p) ==
  /\ pc' = [pc EXCEPT ![t] = p]
  /\ last_return' = NoReturn

\* update_cache, from the point where the task holds cache_lock (`lock` is
\* the lock with the task as holder): the re-check of lines 93-95, then the
\* connection test of line 100.
UpdateCacheLocked(t, o, lock) ==
  IF is_cache_valid(media_items, last_updated, now)
  THEN /\ cache_lock' = Released(lock)
       /\ Return(t, o, "returned", "none", media_items)
  ELSE /\ cache_lock' = lock
       /\ Goto(t, "get_server_info")
       /\ op' = [op EXCEPT ![t] = o]
       /\ UNCHANGED <<items_list, fetched, swapped, failed, overlap>>

\* A command task calls get_items (lazy path: ensure_cache_valid, lines
\* 85-88) or refresh_cache (manual update_cache).  Commands are served once
\* the startup task has begun initialize; nothing in MediaCache makes them
\* wait for its end (the cogs start their own initialize coroutines with
\* bot.loop.create_task and go on serving commands).
Call(t, o) ==
  /\ pc[t] = "idle"
  /\ pc[InitTask] # "idle"
  /\ IF o \in LazyOps /\ ~EnsureUpdates(media_items, last_updated, now)
     THEN /\ Return(t, o, "returned", "none", media_items)
          /\ UNCHANGED cache_lock
     ELSE IF LockFree(cache_lock)
     THEN UpdateCacheLocked(t, o, Acquired(cache_lock, t))
     ELSE /\ cache_lock' = Enqueued(cache_lock, t)
          /\ Goto(t, "wait_lock")
          /\ op' = [op EXCEPT ![t] = o]
          /\ UNCHANGED <<items_list, fetched, swapped, failed, overlap>>
  /\ UNCHANGED <<media_items, last_updated, cache_file, now, last_good,
                 valid, fetchVars, pureVars,
                 storeVars>>

\* update_cache resumes in "async with self.cache_lock" once it was handed
\* the lock.
LockAcquired(t) ==
  /\ pc[t] = "wait_lock"
  /\ Woken(t)
  /\ UpdateCacheLocked(t, op[t], cache_lock)
  /\ UNCHANGED <<media_items, last_updated, cache_file, now, last_good,
                 valid, fetchVars, pureVars,
                 storeVars>>

\* The task leaves update_cache (the lock is released by the with block) or
\* initialize (which holds no lock).
EndCall(t, oc, f, items) ==
  /\ cache_lock' = IF t = InitTask THEN cache_lock ELSE Released(cache_lock)
  /\ Return(t, op[t], oc, f, items)

\* the lazy callers whose call is under way while task t enters the
\* pipeline
Overlapped(t) ==
  [u \in Tasks |->
     overlap[u] \/ (/\ u # t
                    /\ t \in Callers /\ op[t] \in LazyOps
                    /\ u \in Callers /\ op[u] \in LazyOps
                    /\ pc[u] \notin {"idle", "done"})]

\* tautulli.get_server_info() returns r (update_cache, lines 100-106)
GetServerInfo(t, r) ==
  /\ pc[t] = "get_server_info"
  /\ IF r = "success"
     THEN /\ Goto(t, "get_libraries")
          /\ fetched' = [fetched EXCEPT ![t] = TRUE]
          /\ overlap' = Overlapped(t)
          /\ UNCHANGED <<cache_lock, op, items_list, swapped, failed>>
     ELSE /\ cache_lock' = LockAfterProbe(cache_lock)
          /\ Return(t, op[t],
                    IF r = "raise" THEN UpdateCacheExcept(r) ELSE "returned",
                    "probe", media_items)
  /\ UNCHANGED <<media_items, last_updated, cache_file, now, last_good,
                 valid, fetchVars, pureVars,
                 storeVars>>

\* tautulli.get_libraries() returns r (_get_libraries, called first by
\* _fetch_all_media_items).  A non-success response yields no library, so
\* the pipeline returns [] without suspending again; an exception leaves
\* the pipeline and is caught by the caller's except clause.
GetLibraries(t, r) ==
  /\ pc[t] = "get_libraries"
  /\ IF r = "success"
     THEN /\ Goto(t, "gather")
          /\ UNCHANGED <<media_items, cache_lock, op, items_list, fetched,
                         swapped, failed, overlap>>
     ELSE /\ media_items' = IF r = "raise" THEN media_items
                            ELSE NewSnapshot({}, media_items)
          /\ EndCall(t, IF r = "raise" /\ t # InitTask
                        THEN UpdateCacheExcept(r) ELSE "returned",
                     "listing", media_items')
  /\ last_updated' = IF r \in {"success", "raise"} THEN last_updated
                     ELSE RefreshedAt({}, last_updated, now)
  /\ UNCHANGED <<cache_file, now, last_good, valid, fetchVars, pureVars,
                 storeVars>>

\* save_cache_to_disk up to its first suspension: "async with
\* self.cache_lock" takes the copy and releases at once when the lock is
\* free, and queues the task otherwise.
SaveEnter(t, items) ==
  IF LockFree(cache_lock)
  THEN /\ items_list' = [items_list EXCEPT ![t] = items]
       /\ Goto(t, "save_write")
       /\ UNCHANGED cache_lock
  ELSE /\ cache_lock' = Enqueued(cache_lock, t)
       /\ Goto(t, "save_wait_lock")
       /\ UNCHANGED items_list

\* asyncio.gather over _process_library returns; S is what the libraries
\* yielded after _filter_quality_items.  The swap and the call of
\* save_cache_to_disk follow without suspension (lines 108-114, 58-64).
Gather(t, S) ==
  /\ pc[t] = "gather"
  /\ media_items' = NewSnapshot(S, media_items)
  /\ last_updated' = RefreshedAt(S, last_updated, now)
  /\ IF S = {}
     THEN /\ EndCall(t, "returned", "none", media_items')
          /\ UNCHANGED last_good
     ELSE /\ swapped' = [swapped EXCEPT ![t] = TRUE]
          /\ last_good' = S
          /\ SaveEnter(t, media_items')
          /\ UNCHANGED <<op, fetched, failed, overlap>>
  /\ UNCHANGED <<cache_file, now, valid, fetchVars, pureVars,
                 storeVars>>

\* what follows save_cache_to_disk in its caller: initialize ends;
\* update_cache logs, leaves the with block and returns
AfterSave(t, lock) ==
  /\ cache_lock' = IF t = InitTask THEN lock ELSE Released(lock)
  /\ Return(t, op[t], "returned", "none", media_items)

\* save_cache_to_disk was handed the lock (lines 259-268)
SaveLocked(t) ==
  /\ pc[t] = "save_wait_lock"
  /\ Woken(t)
  /\ IF media_items = {}
     THEN AfterSave(t, Released(cache_lock))
     ELSE /\ items_list' = [items_list EXCEPT ![t] = media_items]
          /\ cache_lock' = Released(cache_lock)
          /\ Goto(t, "save_write")
          /\ UNCHANGED <<op, fetched, swapped, failed, overlap>>
  /\ UNCHANGED <<media_items, last_updated, cache_file, now, last_good,
                 valid, fetchVars, pureVars,
                 storeVars>>

\* the file operations of save_cache_to_disk (lines 273-299) end with r:
\* the temp file replaced the final file, or an operation raised before
\* the final file was touched, or the rename raised after the unlink
SaveWrite(t, r) ==
  /\ pc[t] = "save_write"
  /\ cache_file' = IF r = "success" THEN File("json", items_list[t])
                   ELSE IF r = "fail" THEN cache_file
                   ELSE File("absent", {})
  /\ AfterSave(t, cache_lock)
  /\ UNCHANGED <<media_items, last_updated, now, last_good, valid, fetchVars, pureVars,
                 storeVars>>

\* initialize up to its first suspension: load_cache_from_disk finds no
\* file (and the pipeline starts), or takes the lock and opens the file.
Initialize ==
  /\ pc[InitTask] = "idle"
  /\ LockFree(cache_lock)
  /\ op' = [op EXCEPT ![InitTask] = "initialize"]
  /\ IF cache_file.kind = "absent"
     THEN /\ media_items' = {}
          /\ Goto(InitTask, "get_libraries")
          /\ fetched' = [fetched EXCEPT ![InitTask] = TRUE]
          /\ UNCHANGED cache_lock
     ELSE /\ cache_lock' = Acquired(cache_lock, InitTask)
          /\ Goto(InitTask, "load_read")
          /\ UNCHANGED <<media_items, fetched>>
  /\ UNCHANGED <<last_updated, cache_file, now, items_list, swapped, failed,
                 overlap, last_good, valid, fetchVars, pureVars,
                 storeVars>>

\* load_cache_from_disk reads and parses the file (lines 235-251), then
\* initialize goes on (lines 52-71); r = "fail" is a read error
LoadRead(r) ==
  /\ pc[InitTask] = "load_read"
  /\ cache_lock' = Released(cache_lock)
  /\ IF r = "success" /\ cache_file.kind = "json"
     THEN /\ media_items' = cache_file.data
          /\ last_updated' = LoadedAt(now)
     ELSE /\ media_items' = {}
          /\ UNCHANGED last_updated
  /\ last_good' = media_items'
  /\ IF NeedsInitialFetch(media_items')
     THEN /\ Goto(InitTask, "get_libraries")
          /\ fetched' = [fetched EXCEPT ![InitTask] = TRUE]
          /\ UNCHANGED <<op, items_list, swapped, failed, overlap>>
     ELSE Return(InitTask, "initialize", "returned", "none", media_items')
  /\ UNCHANGED <<cache_file, now, valid, fetchVars, pureVars,
                 storeVars>>

\* the clock read by datetime.now() advances
Tick ==
  /\ now < MaxTime
  /\ now' = now + 1
  /\ last_return' = NoReturn
  /\ UNCHANGED <<media_items, last_updated, cache_lock, cache_file, taskVars,
                 fetched, swapped, failed, overlap, last_good, valid,
                 fetchVars, pureVars,
                 storeVars>>

Responses == {"success", "fail", "raise"}

TaskStep(t) ==
  \/ \E o \in Ops : t \in Callers /\ Call(t, o)
  \/ LockAcquired(t)
  \/ \E r \in Responses : GetServerInfo(t, r)
  \/ \E r \in Responses : GetLibraries(t, r)
  \/ \E S \in SUBSET Catalog : Gather(t, S)
  \/ SaveLocked(t)
  \/ \E r \in {"success", "fail", "fail_after_unlink"} : SaveWrite(t, r)
  \/ t = InitTask /\ Initialize
  \/ \E r \in {"success", "fail"} : t = InitTask /\ LoadRead(r)

Next == Tick \/ \E t \in Tasks : TaskStep(t)

Spec == Init /\ [][Next]_vars

\* every remote call and disk operation returns and the event loop runs
\* every task that can run
FairSpec == Spec /\ \A t \in Tasks : WF_vars(TaskStep(t))

(***************************************************************************)
(* Claims about the refresh protocol (Spec, FairSpec)                      *)
(***************************************************************************)
\* the await points inside _fetch_all_media_items
PipelinePcs == {"get_libraries", "gather"}

\* the await points inside save_cache_to_disk
SavePcs == {"save_wait_lock", "save_write"}

InPipeline == {t \in Tasks : pc[t] \in PipelinePcs}

\* C1: over any interleaving of initialize, ensure_cache_valid, manual
\* update_cache calls and queries, at most one execution of
\* _fetch_all_media_items is in flight at any time.
C1_AtMostOneFetchInFlight == Cardinality(InPipeline) <= 1

\* C2, as claimed: of the lazy callers whose calls overlap on a stale store
\* only one enters the fetch pipeline, so a caller that was under way while
\* another one entered the pipeline never enters it itself.
C2_ExactlyOneFetch == \A u \in Callers : ~(overlap[u] /\ fetched[u])

\* C2, amended: once a caller's refresh has swapped a snapshot in, no
\* caller enters the fetch pipeline or swaps any more (a refresh that
\* fails or yields no record leaves the store stale, and the next waiting
\* caller runs the pipeline again).
C2_NoFetchAfterSwap ==
  [][(\E t \in Callers : swapped[t])
       => \A u \in Callers : /\ (fetched'[u] => fetched[u])
                              /\ (swapped'[u] => swapped[u])]_vars

\* C2 witness: a caller has swapped while another caller, which saw the
\* stale store, waits in update_cache.
C2_Witness ==
  \E t, u \in Callers : t # u /\ swapped[t] /\ pc[u] = "wait_lock"

\* C3: every refresh that has acquired cache_lock eventually releases it
\* (every remote call and disk operation returning).
C3_RefreshReleasesLock ==
  \A t \in Callers : (cache_lock.holder = {t}) ~> (cache_lock.holder # {t})

\* C4: no task enters save_cache_to_disk while it still holds cache_lock:
\* no task queues for the lock in save_cache_to_disk as the lock's holder.
C4_SaveOutsideLock ==
  \A t \in Tasks :
    (pc[t] = "save_wait_lock" /\ InQueue(cache_lock, t))
      => cache_lock.holder # {t}

\* C5: the step in which a refresh fails at the collection listing leaves
\* the in-memory snapshot (and its timestamp) as it was.
C5_ListingFailureKeepsSnapshot ==
  [][\A t \in Tasks :
       (pc[t] = "get_libraries" /\ pc'[t] = "done"
          /\ last_return'.failed = "listing")
         => /\ media_items' = media_items
            /\ last_updated' = last_updated]_vars

\* C5 witness: a refresh has just failed at the listing and the store
\* still holds records.
C5_Witness == last_return.failed = "listing" /\ media_items # {}

\* C6: every manual update_cache call (refresh_cache) whose refresh does
\* not fail runs the fetch pipeline, also on a valid store.
C6_ForceRefreshAlwaysFetches ==
  (last_return.op = "refresh_cache" /\ last_return.failed = "none")
    => last_return.fetched

\* C7: a refresh that fails outright raises to the caller of the manual
\* path and returns normally on the lazy path.
C7_FailureSurfacedToManualCaller ==
  last_return.failed # "none"
    => /\ (last_return.op = "refresh_cache"
             => last_return.outcome = "raised")
       /\ (last_return.op \in LazyOps
             => last_return.outcome = "returned")

\* C8: a query whose refresh failed returns normally, with the records of
\* the last good snapshot.
C8_QueryDuringOutage ==
  (last_return.op = "get_items" /\ last_return.failed # "none")
    => /\ last_return.outcome = "returned"
       /\ last_return.result = last_good

\* C8 witness: a query has just returned stale records after a failed
\* refresh.
C8_Witness ==
  /\ last_return.op = "get_items"
  /\ last_return.failed # "none"
  /\ last_return.result # {}
  /\ ~is_cache_valid(media_items, last_updated, now)

\* C14: a failing disk save does not undo the swap: every refresh of a
\* caller that has swapped its fetched records in goes through its save,
\* whatever the save's outcome, and returns with these records in memory.
C14_FailedSaveKeepsSwap ==
  \A t \in Callers :
    swapped[t] ~> (pc[t] = "done" /\ media_items = last_good)

\* C15: the swap is atomic for readers: in every step the map is a
\* complete snapshot (never a mix of two), a new map comes with its new
\* timestamp in the same step, and a query returns the records of one
\* complete snapshot.
C15_SwapAtomicForReaders ==
  [][/\ media_items' = last_good'
     /\ (media_items' # media_items /\ media_items' # {})
          => last_updated' = <<now>>
     /\ (last_return'.op = "get_items" /\ last_return'.outcome = "returned")
          => last_return'.result = last_good']_vars

\* C15 witness: a query has just returned the new records while the
\* refresh that swapped them in is still under way
C15_Witness ==
  /\ last_return.op = "get_items"
  /\ last_return.result # {}
  /\ \E t \in Tasks : swapped[t] /\ pc[t] \in SavePcs

\* the store is valid: it holds records and its last refresh is younger
\* than the update interval
C26_StoreValid ==
  /\ media_items # {}
  /\ last_updated # <<>>
  /\ now - last_updated[1] < UpdateInterval

\* the operation that task t calls in this step
C26_Called(t) == IF pc'[t] = "done" THEN last_return'.op ELSE op'[t]

\* C26: a read issued while the store is valid returns without acquiring or
\* waiting on cache_lock, so it completes even while another task holds the
\* lock for a refresh or for a slow or never-finishing save.
C26_ValidReadTakesNoLock ==
  [][\A t \in Callers :
       (/\ pc[t] = "idle"
        /\ pc'[t] # "idle"
        /\ C26_Called(t) \in LazyOps
        /\ C26_StoreValid)
         => /\ pc'[t] = "done"
            /\ cache_lock' = cache_lock
            /\ last_return'.outcome = "returned"
            /\ last_return'.result = media_items]_vars

\* a read has returned the records of the valid store while another task
\* holds the lock and waits in its save for the lock it holds
C26_Witness ==
  /\ last_return.op = "get_items"
  /\ last_return.outcome = "returned"
  /\ last_return.result = media_items
  /\ C26_StoreValid
  /\ \E t \in Tasks : cache_lock.holder = {t} /\ pc[t] = "save_wait_lock"

\* the await points of initialize before its load has ended
C30_Loading == {"idle", "load_read"}

\* C30: at startup, if the snapshot is empty after loading from disk (no
\* file, corrupt file or empty file), initialize runs the fetch pipeline
\* exactly once before it returns; if the loaded snapshot is non-empty,
\* initialize runs no fetch.
C30_InitialFetchIffEmpty ==
  [][/\ (pc[InitTask] \in C30_Loading /\ pc'[InitTask] \notin C30_Loading)
          => IF media_items' = {}
             THEN pc'[InitTask] = "get_libraries" /\ fetched'[InitTask]
             ELSE /\ pc'[InitTask] = "done"
                  /\ last_return'.op = "initialize"
                  /\ ~last_return'.fetched
     /\ (pc[InitTask] \notin C30_Loading /\ pc'[InitTask] # pc[InitTask])
          => /\ pc'[InitTask] # "get_libraries"
             /\ pc'[InitTask] = "done"
                  => last_return'.op = "initialize" /\ last_return'.fetched
    ]_vars

\* initialize has returned after its fetch, the cache file being corrupt
C30_Witness ==
  /\ last_return.op = "initialize"
  /\ last_return.fetched
  /\ cache_file.kind = "corrupt"

\* C31: every refresh that swaps a new non-empty snapshot into memory is
\* followed by a save attempt of that snapshot that runs to its end
\* (success or logged failure), after which the refresh returns.
C31_SwapThenSaveEnds ==
  \A t \in Tasks : (swapped[t] /\ pc[t] \in SavePcs) ~> (pc[t] = "done")

\* C33: a refresh (update_cache or initialize) whose fetch pipeline yields
\* zero records leaves both media_items and last_updated unchanged: an
\* empty result never replaces a non-empty snapshot and never marks the
\* store as freshly refreshed, so a store that was invalid stays invalid.
C33_EmptyFetchChangesNothing ==
  [][\A t \in Tasks :
       (pc[t] \in PipelinePcs /\ pc'[t] = "done")
         => /\ media_items' = media_items
            /\ last_updated' = last_updated
            /\ ~is_cache_valid(media_items, last_updated, now)
                 => ~is_cache_valid(media_items', last_updated', now')]_vars

\* a query has returned after its refresh fetched zero records: the store
\* holds its old records and is still invalid
C33_Witness ==
  /\ last_return.op = "get_items"
  /\ last_return.fetched
  /\ last_return.failed = "none"
  /\ media_items # {}
  /\ last_updated # <<>>
  /\ ~is_cache_valid(media_items, last_updated, now)

\* C34: after load_cache_from_disk succeeds on a non-empty file,
\* last_updated is the load time: the store is valid immediately, and a
\* lazy query on a store that holds records calls update_cache only when
\* update_interval has elapsed since last_updated.
C34_LoadStampsLoadTime ==
  [][/\ (pc[InitTask] = "load_read" /\ media_items' # {})
          => /\ last_updated' = <<now>>
             /\ is_cache_valid(media_items', last_updated', now)
     /\ \A t \in Callers :
          (/\ pc[t] = "idle"
           /\ pc'[t] \notin {"idle", "done"}
           /\ op'[t] \in LazyOps
           /\ media_items # {})
            => /\ last_updated # <<>>
               /\ now - last_updated[1] >= UpdateInterval]_vars

\* initialize has just returned with the records of the file, loaded after
\* the start of the clock, and the store is valid
C34_Witness ==
  /\ last_return.op = "initialize"
  /\ ~last_return.fetched
  /\ media_items # {}
  /\ now > 0
  /\ last_updated = <<now>>
  /\ is_cache_valid(media_items, last_updated, now)

\* C37: in every reachable state a non-empty media_items implies that
\* last_updated is set.
C37_NonEmptyHasTimestamp == media_items # {} => last_updated # <<>>

\* a refresh has just swapped records into a store that was loaded from no
\* file, and the store has its timestamp
C37_Witness ==
  /\ \E t \in Tasks : swapped[t] /\ pc[t] \in SavePcs
  /\ cache_file.kind = "absent"
  /\ media_items # {}
  /\ last_updated = <<now>>

\* C35: when the server-info probe at the start of update_cache fails,
\* update_cache issues no collection listing, item listing or detail fetch,
\* leaves media_items and last_updated unchanged, releases cache_lock and
\* returns normally.
C35_ProbeFailureEndsRefresh ==
  [][\A t \in Tasks :
       (pc[t] = "get_server_info" /\ pc'[t] \notin {pc[t], "get_libraries"})
         => /\ pc'[t] = "done"
            /\ last_return'.outcome = "returned"
            /\ last_return'.failed = "probe"
            /\ ~last_return'.fetched
            /\ media_items' = media_items
            /\ last_updated' = last_updated
            /\ cache_lock'.holder # {t}
            /\ ~InQueue(cache_lock', t)]_vars

\* a refresh has just returned after its probe failed, the lock is free
\* and the store holds its old records
C35_Witness ==
  /\ last_return.failed = "probe"
  /\ last_return.outcome = "returned"
  /\ ~last_return.fetched
  /\ LockFree(cache_lock)
  /\ media_items # {}

(***************************************************************************)
(* SpecValid: is_cache_valid on arbitrary field values                     *)
(***************************************************************************)
Timestamps == {<<>>} \cup {<<t>> : t \in 0..MaxTime}

InitValid ==
  /\ media_items \in SUBSET Catalog
  /\ last_updated \in Timestamps
  /\ now \in 0..MaxTime
  /\ cache_lock = [holder |-> {}, waiters |-> <<>>]
  /\ cache_file = File("absent", {})
  /\ pc = [t \in Tasks |-> "idle"]
  /\ op = [t \in Tasks |-> "none"]
  /\ items_list = [t \in Tasks |-> {}]
  /\ fetched = [t \in Tasks |-> FALSE]
  /\ swapped = [t \in Tasks |-> FALSE]
  /\ failed = [t \in Tasks |-> "none"]
  /\ overlap = [t \in Tasks |-> FALSE]
  /\ last_good = media_items
  /\ last_return = NoReturn
  /\ valid = <<>>
  /\ InitNoFetch
  /\ InitNoCall
  /\ InitNoStore

\* a call of is_cache_valid() (lines 73-83)
CheckValid ==
  /\ valid = <<>>
  /\ valid' = <<is_cache_valid(media_items, last_updated, now)>>
  /\ UNCHANGED <<cacheVars, taskVars, obsVars, fetchVars, pureVars,
                 storeVars>>

NextValid == CheckValid

SpecValid == InitValid /\ [][NextValid]_vars

\* C9: is_cache_valid returns false exactly when the map is empty, or
\* last_updated is unset, or now - last_updated >= update_interval.
C9_IsCacheValid ==
  valid # <<>>
    => (valid[1] <=> ~(\/ media_items = {}
                       \/ last_updated = <<>>
                       \/ now - last_updated[1] >= UpdateInterval))

\* C9 witness: is_cache_valid returned false for an empty map whose
\* timestamp is younger than update_interval.
C9_Witness ==
  /\ valid = <<FALSE>>
  /\ media_items = {}
  /\ last_updated # <<>>
  /\ now - last_updated[1] < UpdateInterval

(***************************************************************************)
(* SpecFetch: the libraries of one asyncio.gather (_process_library) and   *)
(* the detail fetches of their batches (_fetch_item_metadata).  The        *)
(* fetches of a batch are counted, not told apart.                         *)
(***************************************************************************)
Min(a, b) == IF a < b THEN a ELSE b

InitFetch ==
  /\ InitCache
  /\ cache_file = File("absent", {})
  /\ valid = <<>>
  /\ sem_value = SemaphoreSize
  /\ lib_pc = [l \in Libraries |-> "list"]
  /\ rating_keys = [l \in Libraries |-> 0]
  /\ batch_waiting = [l \in Libraries |-> 0]
  /\ batch_inflight = [l \in Libraries |-> 0]
  /\ library_items = [l \in Libraries |-> 0]
  /\ fetch_log = <<>>
  /\ InitNoCall
  /\ InitNoStore

\* lines 397-400: the next batch_size keys become the fetches of one batch
StartBatch(l, keys) ==
  /\ batch_waiting' = [batch_waiting EXCEPT ![l] = Min(batch_size, keys)]
  /\ rating_keys' = [rating_keys EXCEPT ![l] = keys - Min(batch_size, keys)]
  /\ lib_pc' = [lib_pc EXCEPT ![l] = "batch"]

\* the log with the listing of library l noted: n keys, or -1 for a
\* listing that failed
LogListing(log, l, n) ==
  IF log = <<>> THEN log
  ELSE [log EXCEPT ![l] = [@ EXCEPT !.listing = IF n < 0 THEN "failed"
                                                 ELSE "listed",
                                     !.keys = IF n < 0 THEN 0 ELSE n]]

\* the log with the outcome r of a detail fetch of library l noted
LogFetch(log, l, r) ==
  IF log = <<>> \/ r = "success" THEN log
  ELSE [log EXCEPT ![l] = [@ EXCEPT !.failed = @ + 1]]

\* a listing failure that ends the work on every library
ListingEndsAll(pcs, l) == [m \in DOMAIN pcs |-> "done"]

\* "return library_items" of lines 385 and 391, and the except clause of
\* lines 413-416: the work on library l ends, on no other library
ListingEnds(pcs, l) == [pcs EXCEPT ![l] = "done"]

\* tautulli.get_library_media_info returns for library l: n rating keys,
\* n = 0 for an empty library and n = -1 for an error response or an
\* exception (lines 375-400)
ListItems(l, n) ==
  /\ lib_pc[l] = "list"
  /\ IF n <= 0
     THEN /\ lib_pc' = ListingEnds(lib_pc, l)
          /\ UNCHANGED <<rating_keys, batch_waiting>>
     ELSE StartBatch(l, n)
  /\ fetch_log' = LogListing(fetch_log, l, n)
  /\ UNCHANGED <<cacheVars, taskVars, obsVars, valid, pureVars,
                 storeVars, sem_value,
                 batch_inflight, library_items>>

\* asyncio.Semaphore.acquire hands out a permit only while one is left
SemaphoreIgnored(value) == TRUE

SemaphoreFree(value) == value > 0

\* a fetch of the batch enters "async with self.semaphore" and calls
\* tautulli.get_metadata (lines 422-424)
AcquireSemaphore(l) ==
  /\ lib_pc[l] = "batch"
  /\ batch_waiting[l] > 0
  /\ SemaphoreFree(sem_value)
  /\ sem_value' = sem_value - 1
  /\ batch_waiting' = [batch_waiting EXCEPT ![l] = @ - 1]
  /\ batch_inflight' = [batch_inflight EXCEPT ![l] = @ + 1]
  /\ UNCHANGED <<cacheVars, taskVars, obsVars, valid, pureVars,
                 storeVars, lib_pc, rating_keys,
                 library_items, fetch_log>>

\* a fetch that keeps its permit when get_metadata raises
PermitKeptOnRaise(value, r) == IF r = "raise" THEN value ELSE value + 1

\* "async with self.semaphore" (line 422) releases the permit on every
\* path out of the block: return of the record, return None, exception
PermitReleased(value, r) == value + 1

\* a fetch whose failure discards what the library has collected
CollectedOrAborted(n, r) == IF r = "success" THEN n + 1 ELSE 0

\* lines 404-406: the result of a fetch is appended when it is a record;
\* None (no response, non-success status, exception caught in
\* _fetch_item_metadata) and exceptions are skipped
Collected(n, r) == IF r = "success" THEN n + 1 ELSE n

\* get_metadata ends with r; the permit is released on every path (lines
\* 426-455) and a record is handed to the batch on success only
FetchItemMetadata(l, r) ==
  /\ batch_inflight[l] > 0
  /\ batch_inflight' = [batch_inflight EXCEPT ![l] = @ - 1]
  /\ sem_value' = PermitReleased(sem_value, r)
  /\ library_items' = [library_items EXCEPT ![l] = Collected(@, r)]
  /\ fetch_log' = LogFetch(fetch_log, l, r)
  /\ UNCHANGED <<cacheVars, taskVars, obsVars, valid, pureVars,
                 storeVars, lib_pc, rating_keys,
                 batch_waiting>>

\* a gather that returns as soon as every fetch of the batch has started
GatherStarted(waiting, inflight) == waiting = 0

\* "await asyncio.gather(*batch_tasks, return_exceptions=True)" returns
\* when every fetch of the batch has ended (line 401)
GatherReturned(waiting, inflight) == waiting = 0 /\ inflight = 0

\* the gather of the batch returns; asyncio.sleep(0.2) (lines 400-409)
BatchDone(l) ==
  /\ lib_pc[l] = "batch"
  /\ GatherReturned(batch_waiting[l], batch_inflight[l])
  /\ lib_pc' = [lib_pc EXCEPT ![l] = "sleep"]
  /\ UNCHANGED <<cacheVars, taskVars, obsVars, valid, pureVars,
                 storeVars, sem_value, rating_keys,
                 batch_waiting, batch_inflight, library_items, fetch_log>>

\* the sleep ends: the next batch starts, or the library is done
NextBatch(l) ==
  /\ lib_pc[l] = "sleep"
  /\ IF rating_keys[l] = 0
     THEN /\ lib_pc' = [lib_pc EXCEPT ![l] = "done"]
          /\ UNCHANGED <<rating_keys, batch_waiting>>
     ELSE StartBatch(l, rating_keys[l])
  /\ UNCHANGED <<cacheVars, taskVars, obsVars, valid, pureVars,
                 storeVars, sem_value,
                 batch_inflight, library_items, fetch_log>>

NextFetch ==
  \E l \in Libraries :
    \/ \E n \in -1..MaxLibItems : ListItems(l, n)
    \/ AcquireSemaphore(l)
    \/ \E r \in Responses : FetchItemMetadata(l, r)
    \/ BatchDone(l)
    \/ NextBatch(l)

SpecFetch == InitFetch /\ [][NextFetch]_vars

RECURSIVE SumOver(_, _)
SumOver(f, S) ==
  IF S = {} THEN 0
  ELSE LET l == CHOOSE x \in S : TRUE IN f[l] + SumOver(f, S \ {l})

\* the get_metadata calls in flight
InFlight == SumOver(batch_inflight, Libraries)

\* C10: whatever the number of libraries processed concurrently, at most
\* 10 get_metadata calls are in flight.
C10_BoundedDetailFetches == InFlight <= SemaphoreSize

\* C10 witness: 10 calls are in flight and a further fetch is held back
C10_Witness ==
  /\ InFlight = SemaphoreSize
  /\ \E l \in Libraries : batch_waiting[l] > 0

(***************************************************************************)
(* SpecCollect: the libraries of SpecFetch with short listings, and a log  *)
(* of what each listing and each detail fetch returned.                    *)
(***************************************************************************)
MaxCollect == 2       \* rating keys in the listing of a library

InitCollect ==
  /\ InitCache
  /\ cache_file = File("absent", {})
  /\ valid = <<>>
  /\ sem_value = SemaphoreSize
  /\ lib_pc = [l \in Libraries |-> "list"]
  /\ rating_keys = [l \in Libraries |-> 0]
  /\ batch_waiting = [l \in Libraries |-> 0]
  /\ batch_inflight = [l \in Libraries |-> 0]
  /\ library_items = [l \in Libraries |-> 0]
  /\ fetch_log = [l \in Libraries |->
                    [listing |-> "none", keys |-> 0, failed |-> 0]]
  /\ InitNoCall
  /\ InitNoStore

NextCollect ==
  \E l \in Libraries :
    \/ \E n \in -1..MaxCollect : ListItems(l, n)
    \/ AcquireSemaphore(l)
    \/ \E r \in Responses : FetchItemMetadata(l, r)
    \/ BatchDone(l)
    \/ NextBatch(l)

SpecCollect == InitCollect /\ [][NextCollect]_vars

\* C27: a failure of a single detail fetch (exception, empty response or
\* non-success status) never aborts its batch, its collection or the
\* refresh: every listed item is still to be fetched, has failed, or is
\* among the records collected, so that every item whose fetch succeeds is
\* in the result.
C27_FetchFailureIsolated ==
  \A l \in Libraries :
    fetch_log[l].listing = "listed" =>
      /\ library_items[l] + fetch_log[l].failed + rating_keys[l]
           + batch_waiting[l] + batch_inflight[l] = fetch_log[l].keys
      /\ lib_pc[l] = "done"
           => library_items[l] = fetch_log[l].keys - fetch_log[l].failed

\* every library is done, and one of them has collected a record although
\* another of its fetches failed
C27_Witness ==
  /\ \A l \in Libraries : lib_pc[l] = "done"
  /\ \E l \in Libraries : fetch_log[l].failed >= 1 /\ library_items[l] >= 1

\* C28: if listing the items of one collection fails, that collection
\* contributes zero records and the records of every other collection are
\* still fetched and included.
C28_ListingFailureIsolated ==
  \A l \in Libraries :
    fetch_log[l].listing = "failed" =>
      /\ lib_pc[l] = "done"
      /\ library_items[l] = 0
      /\ \A m \in Libraries \ {l} :
           lib_pc[m] = "done" =>
             /\ fetch_log[m].listing # "none"
             /\ library_items[m] = fetch_log[m].keys - fetch_log[m].failed

\* the listing of one library failed and another library is done with
\* every record of its listing collected
C28_Witness ==
  \E l, m \in Libraries :
    /\ fetch_log[l].listing = "failed"
    /\ fetch_log[m].listing = "listed"
    /\ lib_pc[m] = "done"
    /\ library_items[m] = MaxCollect

\* C39: semaphore permits are conserved: every detail fetch releases its
\* permit on every path, so the free permits and the fetches in flight
\* always add up to 10 and, whenever no fetch is in flight, all 10 permits
\* are available.
C39_PermitsConserved ==
  /\ sem_value + InFlight = SemaphoreSize
  /\ InFlight = 0 => sem_value = SemaphoreSize

\* every library is done after a fetch has failed, and all permits are
\* free
C39_Witness ==
  /\ \A l \in Libraries : lib_pc[l] = "done"
  /\ \E l \in Libraries : fetch_log[l].failed >= 1
  /\ InFlight = 0
  /\ sem_value = SemaphoreSize

(***************************************************************************)
(* SpecBatch: one library whose listing is longer than a batch.            *)
(***************************************************************************)
MaxBatches == 2       \* full batches in the listing of the library

\* the lengths of the listing: around the multiples of the batch size
BatchSizes == {k * batch_size + d : k \in 0..MaxBatches, d \in {0, 1}}

InitBatch ==
  /\ InitCache
  /\ cache_file = File("absent", {})
  /\ valid = <<>>
  /\ sem_value = SemaphoreSize
  /\ lib_pc = [l \in Libraries |-> IF l = 1 THEN "list" ELSE "done"]
  /\ rating_keys = [l \in Libraries |-> 0]
  /\ batch_waiting = [l \in Libraries |-> 0]
  /\ batch_inflight = [l \in Libraries |-> 0]
  /\ library_items = [l \in Libraries |-> 0]
  /\ fetch_log = <<>>
  /\ InitNoCall
  /\ InitNoStore

NextBatches ==
  \/ \E n \in BatchSizes : ListItems(1, n)
  \/ AcquireSemaphore(1)
  \/ \E r \in Responses : FetchItemMetadata(1, r)
  \/ BatchDone(1)
  \/ NextBatch(1)

SpecBatch == InitBatch /\ [][NextBatches]_vars

\* C29: within one collection, item ids are processed in batches of at most
\* 20 and batches are strictly sequential: no detail fetch of batch k+1
\* starts before every detail fetch of batch k has completed.
C29_BatchesSequential ==
  [][\A l \in Libraries :
       batch_waiting'[l] > batch_waiting[l] =>
         /\ batch_waiting[l] = 0
         /\ batch_inflight[l] = 0
         /\ batch_waiting'[l] <= batch_size]_vars

\* the first batch has ended with 20 records and fetches of the second
\* batch are in flight
C29_Witness ==
  /\ lib_pc[1] = "batch"
  /\ library_items[1] = batch_size
  /\ batch_inflight[1] > 0

(***************************************************************************)
(* SpecFilter: _filter_quality_items applied to arbitrary lists of         *)
(* records, and applied again to its own result.                           *)
(***************************************************************************)
MaxListLen == 2       \* records in a list handed to the filter
MaxPageLen == 5       \* records in a list that is paginated

\* Python's "not x" for the value types of a record
NotSeq(v) == v = <<>>

NotInt(n) == n = 0

NotStr(s) == s = ""

\* "not item.get('genres') or len(item.get('genres', [])) == 0"
NoGenres(item) == NotSeq(item.genres) \/ Len(item.genres) = 0

LowQualityIgnoringYear(item) ==
  \/ /\ item.title = "Unknown Title"
     /\ NoGenres(item)
     /\ NotInt(item.play_count)
     /\ NotStr(item.summary)
     /\ NotStr(item.rating)
  \/ /\ item.media_type = "unknown"
     /\ NoGenres(item)

\* the two "continue" conditions of _filter_quality_items (lines 341-360)
LowQuality(item) ==
  \/ /\ item.title = "Unknown Title"
     /\ NoGenres(item)
     /\ NotSeq(item.year)
     /\ NotInt(item.play_count)
     /\ NotStr(item.summary)
     /\ NotStr(item.rating)
  \/ /\ item.media_type = "unknown"
     /\ NoGenres(item)

\* a filter that removes from the list it iterates over: the element after
\* a removed one is skipped
RECURSIVE FilterInPlace(_)
FilterInPlace(items) ==
  IF items = <<>> THEN <<>>
  ELSE IF ~LowQuality(Head(items))
  THEN <<Head(items)>> \o FilterInPlace(Tail(items))
  ELSE IF Len(items) = 1 THEN <<>>
  ELSE <<items[2]>> \o FilterInPlace(SubSeq(items, 3, Len(items)))

\* the loop of _filter_quality_items from element i on, filtered_items
\* being what it has appended so far
RECURSIVE FilterLoop(_, _, _)
FilterLoop(items, i, filtered_items) ==
  IF i > Len(items) THEN filtered_items
  ELSE FilterLoop(items, i + 1,
                  IF LowQuality(items[i]) THEN filtered_items
                  ELSE Append(filtered_items, items[i]))

\* MediaCache._filter_quality_items
filter_quality_items(items) == FilterLoop(items, 1, <<>>)

\* the records handed to the filter: every combination of title, kind and
\* genres, with at most one of year, play count, summary and rating set
FilterRecords ==
  {Rec(<<"int", 1>>, ti, mt, g, y, n, s, r) :
     ti \in {"Unknown Title", "Alien"}, mt \in {"unknown", "movie"},
     g \in {<<>>, <<"horror">>}, y \in {<<>>, <<1979>>}, n \in {0, 3},
     s \in {"", "In space"}, r \in {"", "8.5"}}

AtMostOneSet(item) ==
  Cardinality({f \in {"year", "play_count", "summary", "rating"} :
                 \/ f = "year" /\ ~NotSeq(item.year)
                 \/ f = "play_count" /\ ~NotInt(item.play_count)
                 \/ f = "summary" /\ ~NotStr(item.summary)
                 \/ f = "rating" /\ ~NotStr(item.rating)}) <= 1

InitFilter ==
  /\ InitCache
  /\ cache_file = File("absent", {})
  /\ valid = <<>>
  /\ InitNoFetch
  /\ InitNoStore
  /\ call \in {[fn |-> "_filter_quality_items", items |-> l] :
                 l \in ListsUpTo({i \in FilterRecords : AtMostOneSet(i)},
                                 MaxListLen)}
  /\ ret = <<>>

\* _filter_quality_items is applied to the list, then to its own result
ApplyFilter ==
  /\ Len(ret) < 2
  /\ ret' = Append(ret, filter_quality_items(
                          IF ret = <<>> THEN call.items ELSE ret[Len(ret)]))
  /\ UNCHANGED <<cacheVars, taskVars, obsVars, valid, fetchVars, call,
                 storeVars>>

NextFilter == ApplyFilter

SpecFilter == InitFilter /\ [][NextFilter]_vars

\* C17: the quality filter is idempotent: filtering an already filtered
\* list returns the same list.
C17_FilterIdempotent == Len(ret) = 2 => ret[2] = ret[1]

\* C17 witness: the filter was applied twice to a list of which it dropped
\* one record and kept another
C17_Witness ==
  /\ Len(ret) = 2
  /\ Len(call.items) = 2
  /\ Len(ret[1]) = 1

\* the drop condition in the words of the claim
C18_Dropped(item) ==
  \/ /\ item.title = "Unknown Title"
     /\ item.genres = <<>>
     /\ item.year = <<>>
     /\ item.play_count = 0
     /\ item.summary = ""
     /\ item.rating = ""
  \/ /\ item.media_type = "unknown"
     /\ item.genres = <<>>

C18_Kept(item) == ~C18_Dropped(item)

\* C18: the filter drops a record iff (its title is 'Unknown Title' and
\* its genres, year, play count, summary and rating are all empty or
\* absent) or (its kind is 'unknown' and its genres are empty); the other
\* records are kept in input order.
C18_FilterDropsExactly ==
  Len(ret) >= 1 => ret[1] = SelectSeq(call.items, C18_Kept)

\* C18 witness: of two records with the sentinel title and no genres the
\* filter dropped the one with nothing else set and kept the one with a year
C18_Witness ==
  /\ Len(ret) >= 1
  /\ Len(call.items) = 2
  /\ \A i \in 1..2 : /\ call.items[i].title = "Unknown Title"
                     /\ call.items[i].genres = <<>>
                     /\ call.items[i].media_type = "movie"
  /\ call.items[1].year = <<>>
  /\ call.items[2].year # <<>>
  /\ ret[1] = <<call.items[2]>>

(***************************************************************************)
(* SpecQuery: the computation of get_items on the list of the snapshot's   *)
(* records (lines 163-200), for arbitrary snapshots and arguments.  None   *)
(* is "" for media_type, <<>> for genres and sort_by, {} for               *)
(* exclude_rating_keys: the code tests these arguments for truth only.     *)
(***************************************************************************)
\* str.lower()
Lower(s) ==
  CASE s = "TV" -> "tv"
    [] s = "Movie" -> "movie"
    [] s = "Show" -> "show"
    [] s = "Episode" -> "episode"
    [] s = "Comedy" -> "comedy"
    [] s = "Drama" -> "drama"
    [] s = "Horror" -> "horror"
    [] s = "A" -> "a"
    [] s = "B" -> "b"
    [] s = "L" -> "l"
    [] OTHER -> s

valid_media_types_as_is(media_type) ==
  IF media_type = "tv" THEN {"show", "episode"}
  ELSE IF media_type = "movie" THEN {"movie"}
  ELSE {media_type}

\* lines 167-172
valid_media_types(media_type) ==
  IF Lower(media_type) = "tv" THEN {"show", "episode"}
  ELSE IF Lower(media_type) = "movie" THEN {"movie"}
  ELSE {Lower(media_type)}

\* lines 166-177
MediaTypeFilter(items, media_type) ==
  IF media_type = "" THEN items
  ELSE SelectSeq(items, LAMBDA item :
                   Lower(item.media_type) \in valid_media_types(media_type))

GenreMatchAll(item, genres_lower) ==
  \A i \in 1..Len(item.genres) : Lower(item.genres[i]) \in genres_lower

\* any(g.lower() in genres_lower for g in item.get("genres", []))
GenreMatch(item, genres_lower) ==
  \E i \in 1..Len(item.genres) : Lower(item.genres[i]) \in genres_lower

\* lines 179-184
GenreFilter(items, genres) ==
  IF genres = <<>> THEN items
  ELSE LET genres_lower == {Lower(genres[i]) : i \in 1..Len(genres)}
       IN SelectSeq(items, LAMBDA item : GenreMatch(item, genres_lower))

\* lines 186-189
\* the exclusion with the keys compared as they are, not stringified
ExcludeFilterRaw(items, exclude_rating_keys) ==
  SelectSeq(items, LAMBDA item : item.rating_key \notin exclude_rating_keys)

ExcludeFilter(items, exclude_rating_keys) ==
  IF exclude_rating_keys = {} THEN items
  ELSE LET exclude_keys == {Str(key) : key \in exclude_rating_keys}
       IN SelectSeq(items, LAMBDA item :
                      Str(item.rating_key) \notin exclude_keys)

\* x.get(sort_by, "") is None
KeyIsNone(item, field) == field = "year" /\ item.year = <<>>

\* x.get(sort_by, "") where it is a number
SortKey(item, field) == IF field = "year" THEN item.year[1] ELSE item[field]

\* list.sort compares every element of a list of two or more with another
\* one, and Python orders None with nothing: TypeError
SortRaises(items, sort_by, random_sort) ==
  /\ ~random_sort
  /\ sort_by # <<>>
  /\ Len(items) >= 2
  /\ \E i \in 1..Len(items) : KeyIsNone(items[i], sort_by[1])

\* list.sort(key=..., reverse=True) places x in a list sorted so far: after
\* every element whose key is not smaller (the sort is stable)
RECURSIVE InsertDesc(_, _, _)
InsertDesc(sorted, x, field) ==
  IF sorted = <<>> THEN <<x>>
  ELSE IF SortKey(Head(sorted), field) >= SortKey(x, field)
  THEN <<Head(sorted)>> \o InsertDesc(Tail(sorted), x, field)
  ELSE <<x>> \o sorted

RECURSIVE SortDesc(_, _)
SortDesc(items, field) ==
  IF Len(items) <= 1 THEN items
  ELSE InsertDesc(SortDesc(SubSeq(items, 1, Len(items) - 1), field),
                  items[Len(items)], field)

\* lines 191-195; shuffle is the permutation random.shuffle picked
Order(items, sort_by, random_sort, shuffle) ==
  IF random_sort THEN [i \in 1..Len(items) |-> items[shuffle[i]]]
  ELSE IF sort_by # <<>> THEN SortDesc(items, sort_by[1])
  ELSE items

\* Python's list[a:b]
Slice(list, a, b) ==
  LET n == Len(list)
      clamp(x) == IF x < 0 THEN (IF x + n < 0 THEN 0 ELSE x + n)
                  ELSE IF x > n THEN n ELSE x
  IN SubSeq(list, clamp(a) + 1, clamp(b))

\* MediaCache.get_items after ensure_cache_valid, on the list of the
\* snapshot's values (lines 163-200)
get_items(items, media_type, genres, exclude_rating_keys, limit, offset, sort_by, random_sort, shuffle) ==
  Slice(Order(ExcludeFilter(GenreFilter(MediaTypeFilter(items, media_type),
                                        genres),
                            exclude_rating_keys),
              sort_by, random_sort, shuffle),
        offset, offset + limit)

\* str.lower() on a string given as the sequence of its characters
LowerStr(s) == [i \in 1..Len(s) |-> Lower(s[i])]

\* "query in title": the query is a substring of the title
InStr(query, title) ==
  \E i \in 0..(Len(title) - Len(query)) :
    SubSeq(title, i + 1, i + Len(query)) = query

\* the loop of search (lines 217-222) from element i on
RECURSIVE SearchLoop(_, _, _, _, _)
SearchLoop(items, i, query, limit, matching_items) ==
  IF i > Len(items) THEN matching_items
  ELSE IF ~InStr(query, LowerStr(items[i].title))
  THEN SearchLoop(items, i + 1, query, limit, matching_items)
  ELSE IF Len(matching_items) + 1 >= limit
  THEN Append(matching_items, items[i])
  ELSE SearchLoop(items, i + 1, query, limit,
                  Append(matching_items, items[i]))

\* MediaCache.search after ensure_cache_valid, on the list of the
\* snapshot's values (lines 213-224)
search(items, query, limit) ==
  SearchLoop(items, 1, LowerStr(query), limit, <<>>)

\* the record the snapshot holds at position i; a title is the sequence of
\* its characters
QueryRecord(i, mt, g) ==
  Rec(<<"int", i>>, <<"A", "l">>, mt, g, <<1979>>, 0, "", "")

QueryRecords(i) ==
  {QueryRecord(i, mt, g) :
     mt \in {"movie", "show", "episode", "Movie"},
     g \in {<<>>, <<"comedy">>, <<"Comedy", "drama">>}}

\* the lists of k records whose i-th record is one of R[i]
RECURSIVE ListsOfLen(_, _)
ListsOfLen(R, k) ==
  IF k = 0 THEN {<<>>}
  ELSE {Append(l, x) : l \in ListsOfLen(R, k - 1), x \in R[k]}

\* the lists of at most Len(R) records whose i-th record is one of R[i]
ListsOf(R) == UNION {ListsOfLen(R, k) : k \in 0..Len(R)}

\* the value lists of the snapshots queried
QueryLists == ListsOf([i \in 1..MaxListLen |-> QueryRecords(i)])

\* records that differ in what they are sorted by: play count and year
SortRecords(i) ==
  {Rec(<<"int", i>>, <<"A", "l">>, "movie", <<>>, y, n, "", "") :
     y \in {<<>>, <<1979>>, <<1986>>}, n \in {0, 3}}

\* MaxPageLen records that differ in their keys only
PageList(n) == [i \in 1..n |-> QueryRecord(i, "movie", <<>>)]

\* records that differ in kind, genres and play count
ComposedRecords(i) ==
  {Rec(<<"int", i>>, <<"A", "l">>, mt, g, <<1979>>, n, "", "") :
     mt \in {"movie", "show"}, g \in {<<>>, <<"comedy">>}, n \in {0, 3}}

\* records that differ in their titles, a title being the sequence of its
\* characters
SearchRecords(i) ==
  {Rec(<<"int", i>>, ti, "movie", <<>>, <<1979>>, 0, "", "") :
     ti \in {<<"A", "l">>, <<"a", "L", "a">>, <<"b">>}}

\* a call of get_items
GetItemsCall(items, media_type, genres, exclude_rating_keys, limit, offset, sort_by, random_sort) ==
  [fn |-> "get_items", items |-> items, media_type |-> media_type,
   genres |-> genres, exclude_rating_keys |-> exclude_rating_keys,
   limit |-> limit, offset |-> offset, sort_by |-> sort_by,
   random_sort |-> random_sort, query |-> <<>>]

\* a call of search
SearchCall(items, query, limit) ==
  [fn |-> "search", items |-> items, media_type |-> "", genres |-> <<>>,
   exclude_rating_keys |-> {}, limit |-> limit, offset |-> 0,
   sort_by |-> <<>>, random_sort |-> FALSE, query |-> query]

\* get_items(media_type=..., genres=...)
FilterCalls ==
  {GetItemsCall(l, mt, g, {}, 100, 0, <<>>, FALSE) :
     l \in QueryLists,
     mt \in {"", "tv", "TV", "movie", "episode", "Show"},
     g \in {<<>>, <<"comedy">>, <<"Comedy">>, <<"horror", "Drama">>}}

\* get_items(exclude_rating_keys=...)
ExcludeCalls ==
  {GetItemsCall(l, "", <<>>, ex, 100, 0, <<>>, FALSE) :
     l \in QueryLists,
     ex \in {{<<"str", 1>>}, {<<"int", 2>>},
             {<<"int", 1>>, <<"str", MaxListLen + 1>>}}}

\* get_items(limit=..., offset=...)
PageCalls ==
  {GetItemsCall(PageList(n), "", <<>>, {}, lim, off, <<>>, FALSE) :
     n \in 0..MaxPageLen, lim \in {-1, 0, 1, 2, 10},
     off \in -2..(MaxPageLen + 1)}

\* get_items(sort_by=...) and get_items(random_sort=True)
SortCalls ==
  {GetItemsCall(l, "", <<>>, {}, 100, 0, sb, rs) :
     l \in ListsOf([i \in 1..MaxListLen |-> SortRecords(i)]),
     sb \in {<<>>, <<"play_count">>, <<"year">>}, rs \in BOOLEAN}

\* get_items with several arguments at once
ComposedCalls ==
  {GetItemsCall(l, mt, g, ex, lim, off, sb, FALSE) :
     l \in ListsOf([i \in 1..MaxListLen |-> ComposedRecords(i)]),
     mt \in {"", "movie"}, g \in {<<>>, <<"Comedy">>},
     ex \in {{}, {<<"str", 1>>}}, lim \in {1, 100}, off \in {0, 1},
     sb \in {<<>>, <<"play_count">>}}

SearchCalls ==
  {SearchCall(l, q, lim) :
     l \in ListsOf([i \in 1..MaxListLen |-> SearchRecords(i)]),
     q \in {<<>>, <<"a">>, <<"A", "L">>, <<"l", "a">>},
     lim \in 0..MaxListLen}

InitQuery ==
  /\ InitCache
  /\ cache_file = File("absent", {})
  /\ valid = <<>>
  /\ InitNoFetch
  /\ InitNoStore
  /\ \/ call \in FilterCalls
     \/ call \in ExcludeCalls
     \/ call \in PageCalls
     \/ call \in SortCalls
     \/ call \in ComposedCalls
     \/ call \in SearchCalls
  /\ ret = <<>>

\* a get_items that shuffles and sorts the values of the snapshot themselves
ValuesOrderedInPlace(values, ordered) == ordered

\* the values of the snapshot after get_items has ordered its list: line
\* 164 builds a new list with list(...), and random.shuffle and list.sort
\* (lines 191-195) act on that list or on the new lists of the filters
ValuesAfterOrder(values, ordered) == values

\* the orders random.shuffle can leave a list of n elements in
Shuffles(n) ==
  {f \in [1..n -> 1..n] : \A i, j \in 1..n : f[i] = f[j] => i = j}

\* get_items computes its result, or list.sort raises TypeError
GetItems ==
  /\ call.fn = "get_items"
  /\ ret = <<>>
  /\ LET items == ExcludeFilter(GenreFilter(MediaTypeFilter(call.items,
                                                            call.media_type),
                                            call.genres),
                                call.exclude_rating_keys)
     IN IF SortRaises(items, call.sort_by, call.random_sort)
        THEN ret' = <<<<>>, "TypeError">> /\ UNCHANGED call
        ELSE \E shuffle \in IF call.random_sort THEN Shuffles(Len(items))
                            ELSE {[i \in 1..Len(items) |-> i]} :
               /\ ret' = <<get_items(call.items, call.media_type,
                                     call.genres, call.exclude_rating_keys,
                                     call.limit, call.offset, call.sort_by,
                                     call.random_sort, shuffle)>>
               /\ call' = [call EXCEPT !.items =
                             ValuesAfterOrder(@, Order(items, call.sort_by,
                                                       call.random_sort,
                                                       shuffle))]
  /\ UNCHANGED <<cacheVars, taskVars, obsVars, valid, fetchVars, storeVars>>

\* search computes its result
Search ==
  /\ call.fn = "search"
  /\ ret = <<>>
  /\ ret' = <<search(call.items, call.query, call.limit)>>
  /\ UNCHANGED <<cacheVars, taskVars, obsVars, valid, fetchVars, call,
                 storeVars>>

NextQuery == GetItems \/ Search

SpecQuery == InitQuery /\ [][NextQuery]_vars

\* get_items has returned and was asked to filter only
OnlyFiltered ==
  /\ call.fn = "get_items"
  /\ Len(ret) = 1
  /\ call.exclude_rating_keys = {}
  /\ call.offset = 0
  /\ call.limit >= Len(call.items)
  /\ call.sort_by = <<>>
  /\ ~call.random_sort

\* the kind filter as claimed: the filter value is matched as it is
C19_PassesAsIs(item) ==
  call.media_type = ""
    \/ item.media_type \in valid_media_types_as_is(call.media_type)

\* the kind filter, amended: filter value and record kind are lower-cased
C19_PassesLowered(item) ==
  \/ call.media_type = ""
  \/ /\ Lower(call.media_type) = "tv"
     /\ Lower(item.media_type) \in {"show", "episode"}
  \/ /\ Lower(call.media_type) = "movie"
     /\ Lower(item.media_type) = "movie"
  \/ /\ Lower(call.media_type) \notin {"tv", "movie"}
     /\ Lower(item.media_type) = Lower(call.media_type)

\* C19, as claimed: the kind filter of get_items passes a record iff its
\* kind is in the expanded set: 'tv' expands to {show, episode}, 'movie' to
\* {movie}, any other literal to the single-element set of that value, and
\* an empty or absent filter passes every record.
C19_KindFilterAsIs ==
  (OnlyFiltered /\ call.genres = <<>>)
    => ret[1] = SelectSeq(call.items, C19_PassesAsIs)

\* C19, amended: the kind filter compares case-insensitively: the filter
\* value is lower-cased before it is expanded ('tv' to {show, episode},
\* 'movie' to {movie}, any other value to the set of its lower-cased form)
\* and a record passes iff its lower-cased kind is in the expanded set; an
\* empty or absent filter passes every record.
C19_KindFilterLowered ==
  (OnlyFiltered /\ call.genres = <<>>)
    => ret[1] = SelectSeq(call.items, C19_PassesLowered)

\* C19 witness: the filter 'TV' passed a show and held back a movie
C19_Witness ==
  /\ OnlyFiltered
  /\ call.genres = <<>>
  /\ call.media_type = "TV"
  /\ Len(call.items) = 2
  /\ call.items[1].media_type = "movie"
  /\ call.items[2].media_type = "show"
  /\ ret[1] = <<call.items[2]>>

\* some genre of the record equals some filter genre, case ignored
C20_Passes(item) ==
  \/ call.genres = <<>>
  \/ \E i \in 1..Len(item.genres), j \in 1..Len(call.genres) :
       Lower(item.genres[i]) = Lower(call.genres[j])

\* C20: the genre filter of get_items passes a record iff at least one of
\* the record's genres equals, case-insensitively, at least one of the
\* filter genres; an empty or absent genre filter passes every record.
C20_GenreFilter ==
  (OnlyFiltered /\ call.media_type = "")
    => ret[1] = SelectSeq(call.items, C20_Passes)

\* C20 witness: a two-genre filter passed a record that shares one genre
\* with it in another case and held back a record without genres
C20_Witness ==
  /\ OnlyFiltered
  /\ call.media_type = ""
  /\ call.genres = <<"horror", "Drama">>
  /\ Len(call.items) = 2
  /\ call.items[1].genres = <<>>
  /\ call.items[2].genres = <<"Comedy", "drama">>
  /\ ret[1] = <<call.items[2]>>

\* get_items has returned and was asked to exclude only
OnlyExcluded ==
  /\ call.fn = "get_items"
  /\ Len(ret) = 1
  /\ call.media_type = ""
  /\ call.genres = <<>>
  /\ call.offset = 0
  /\ call.limit >= Len(call.items)
  /\ call.sort_by = <<>>
  /\ ~call.random_sort

\* the stringified id of the record is the stringified form of a member of
\* the exclude set
C21_Excluded(item) ==
  \E key \in call.exclude_rating_keys : Str(key) = Str(item.rating_key)

\* C21: exclusion in get_items removes exactly the records whose stringified
\* id is in the exclude set, whose members are compared stringified too,
\* and keeps all other records in their order.
C21_ExcludeRemovesExactly ==
  OnlyExcluded =>
    ret[1] = SelectSeq(call.items, LAMBDA item : ~C21_Excluded(item))

\* the exclude set {"1"} removed the record with the integer id 1 and kept
\* the record with the id 2
C21_Witness ==
  /\ OnlyExcluded
  /\ call.exclude_rating_keys = {<<"str", 1>>}
  /\ Len(call.items) = 2
  /\ call.items[1].rating_key = <<"int", 1>>
  /\ ret[1] = <<call.items[2]>>

\* get_items was asked to paginate only
OnlyPaged ==
  /\ call.fn = "get_items"
  /\ call.media_type = ""
  /\ call.genres = <<>>
  /\ call.exclude_rating_keys = {}
  /\ call.sort_by = <<>>
  /\ ~call.random_sort

\* the records of list at the positions [offset, offset + limit) that the
\* list has, positions counted from 0
C22_Page(list) ==
  LET first == IF call.offset < 0 THEN 0 ELSE call.offset
      last == IF call.offset + call.limit > Len(list)
              THEN Len(list) ELSE call.offset + call.limit
  IN SubSeq(list, first + 1, last)

C22_Range == C22_Page(call.items)

\* C22: pagination in get_items returns exactly the records at positions
\* [offset, offset + limit) clamped to the list bounds, for every offset and
\* limit: it never raises, and an offset outside the list yields an empty
\* result.
C22_PaginateClamped ==
  (OnlyPaged /\ ret # <<>>) =>
    /\ Len(ret) = 1
    /\ \/ ret[1] = C22_Range
       \/ /\ call.offset \notin 0..(Len(call.items) - 1)
          /\ ret[1] = <<>>

\* the title of the record contains the query, case-insensitively
C23_Matches(item) ==
  \E i \in 0..(Len(item.title) - Len(call.query)) :
    \A j \in 1..Len(call.query) :
      Lower(item.title[i + j]) = Lower(call.query[j])

\* the records of the snapshot that match, in scan order
C23_Matching == SelectSeq(call.items, C23_Matches)

\* C23: search(query, limit) returns, in snapshot scan order, the first
\* records whose title contains the query case-insensitively, and never
\* returns more than limit records, for every limit including 0.
C23_SearchFirstMatches ==
  (call.fn = "search" /\ ret # <<>>) =>
    /\ Len(ret[1]) <= call.limit
    /\ ret[1] = SubSeq(C23_Matching, 1, Len(ret[1]))
    /\ Len(ret[1]) < call.limit => ret[1] = C23_Matching

\* get_items was asked to order only, and not at random
OnlyOrdered ==
  /\ call.fn = "get_items"
  /\ call.media_type = ""
  /\ call.genres = <<>>
  /\ call.exclude_rating_keys = {}
  /\ call.offset = 0
  /\ call.limit >= Len(call.items)
  /\ ~call.random_sort

\* result holds the records of items descending by field, records with equal
\* values in the order they have in items
C24_StableDescending(result, items, field) ==
  /\ Len(result) = Len(items)
  /\ \E p \in Shuffles(Len(items)) :
       /\ \A i \in 1..Len(items) : result[i] = items[p[i]]
       /\ \A i, j \in 1..Len(items) :
            i < j =>
              /\ SortKey(result[i], field) >= SortKey(result[j], field)
              /\ SortKey(result[i], field) = SortKey(result[j], field)
                   => p[i] < p[j]

\* C24: when random_sort is false and sort_by is given, get_items orders
\* the records descending by that field with ties kept in their original
\* order; when neither is given, the snapshot's insertion order is preserved.
C24_OrderStableDescending ==
  (OnlyOrdered /\ ret # <<>>) =>
    /\ Len(ret) = 1
    /\ IF call.sort_by = <<>> THEN ret[1] = call.items
       ELSE C24_StableDescending(ret[1], call.items, call.sort_by[1])

\* the records that pass the kind filter and the genre filter and are not
\* excluded
C25_Filtered ==
  SelectSeq(call.items, LAMBDA item : /\ C19_PassesLowered(item)
                                      /\ C20_Passes(item)
                                      /\ ~C21_Excluded(item))

\* C25: the result of get_items equals
\* Paginate(Order(Exclude(Filter(snapshot records)))) applied in exactly
\* that order, so filtering and exclusion are applied before offset and
\* limit are counted.
C25_ComposedInOrder ==
  (call.fn = "get_items" /\ ~call.random_sort /\ ret # <<>>) =>
    /\ Len(ret) = 1
    /\ \E p \in Shuffles(Len(C25_Filtered)) :
         LET ordered == [i \in 1..Len(C25_Filtered) |-> C25_Filtered[p[i]]]
         IN /\ IF call.sort_by = <<>> THEN ordered = C25_Filtered
               ELSE C24_StableDescending(ordered, C25_Filtered,
                                         call.sort_by[1])
            /\ ret[1] = C22_Page(ordered)

\* C32: queries never mutate the store: a get_items (including random
\* shuffle and sort) or search call leaves the values of media_items (its
\* keys, its order and its records) and last_updated unchanged.
C32_QueriesLeaveStore ==
  [][(call.fn \in {"get_items", "search"} /\ ret' # ret) =>
       /\ call'.items = call.items
       /\ media_items' = media_items
       /\ last_updated' = last_updated]_vars

\* get_items has returned two records in the reverse of the order they
\* have in the snapshot, by a shuffle
C32_Witness ==
  /\ call.fn = "get_items"
  /\ call.random_sort
  /\ Len(ret) = 1
  /\ Len(call.items) = 2
  /\ call.items[1] # call.items[2]
  /\ ret[1] = <<call.items[2], call.items[1]>>

(***************************************************************************)
(* SpecStore: the snapshot and the cache file at the level of records.     *)
(* One process loads the file, swaps fetched lists in and saves them; the  *)
(* process can die at any point, and a new process then starts from the    *)
(* files the dead one left.  Next to the files MediaCache wrote, the file  *)
(* found at startup can be any text: cogs/plex_commands.py writes the same *)
(* default path, cache/media_cache.json, in place and unfiltered.          *)
(***************************************************************************)
RECURSIVE DictPut(_, _, _)
\* d[key] = value on a dict: a key already present keeps its position
DictPut(d, key, value) ==
  IF d = <<>> THEN <<<<key, value>>>>
  ELSE IF Head(d)[1] = key THEN <<<<key, value>>>> \o Tail(d)
  ELSE <<Head(d)>> \o DictPut(Tail(d), key, value)

\* a map that keeps one entry per item of the list
DictFromListAll(data) ==
  [i \in 1..Len(data) |-> <<Str(data[i].rating_key), data[i]>>]

RECURSIVE DictFromList(_)
\* {str(item["rating_key"]): item for item in data}
DictFromList(data) ==
  IF data = <<>> THEN <<>>
  ELSE LET item == data[Len(data)]
       IN DictPut(DictFromList(SubSeq(data, 1, Len(data) - 1)),
                  Str(item.rating_key), item)

\* list(self.media_items.values())
Values(d) == [i \in 1..Len(d) |-> d[i][2]]

\* what reading and parsing the file raises; r = "fail" is a read error
LoadError(file, r) ==
  IF r = "fail" THEN "Exception"
  ELSE IF file.kind = "text" /\ ~file.closed THEN "JSONDecodeError"
  ELSE IF file.kind = "other" THEN "Exception"
  ELSE "none"

LoadExceptDecodeOnly(error) ==
  IF error = "JSONDecodeError" THEN "caught" ELSE "raised"

\* load_cache_from_disk: "except json.JSONDecodeError" and "except
\* Exception" (lines 246-251)
LoadExcept(error) == "caught"

WrittenFirst(text, items) == Append(text, items[1])

\* the loop of lines 278-282 writes the next item of items_list
Written(text, items) == Append(text, items[Len(text) + 1])

\* the records a fetch can yield or a file can hold: two records with the
\* same stringified key, one with another key, one of low quality
StoreRecords ==
  {Rec(<<"int", 1>>, "Alien", "movie", <<"horror">>, <<1979>>, 3, "", "8.5"),
   Rec(<<"str", 1>>, "Aliens", "movie", <<"horror">>, <<1986>>, 0, "", ""),
   Rec(<<"int", 2>>, "Heat", "movie", <<"crime">>, <<1995>>, 1, "", ""),
   Rec(<<"int", 2>>, "Unknown Title", "unknown", <<>>, <<>>, 0, "", "")}

StoreLists == ListsUpTo(StoreRecords, MaxListLen)

InitStore ==
  /\ InitCache
  /\ cache_file = File("absent", {})
  /\ valid = <<>>
  /\ InitNoFetch
  /\ InitNoCall
  /\ snapshot = <<>>
  /\ final_file \in {AbsentFile, OtherFile}
                      \cup {TextFile(l, c) : l \in StoreLists, c \in BOOLEAN}
  /\ temp_file = AbsentFile
  /\ save_pc = "idle"
  /\ save_list = <<>>
  /\ saved = [prev |-> final_file, new |-> <<>>, done |-> FALSE,
              read_back |-> FALSE]
  /\ loaded = "none"

\* load_cache_from_disk (lines 226-251), called once by initialize
Load(r) ==
  /\ loaded = "none"
  /\ IF final_file.kind = "absent"
     THEN /\ snapshot' = <<>>
          /\ loaded' = "no_file"
     ELSE IF LoadError(final_file, r) = "none"
     THEN /\ snapshot' = DictFromList(final_file.items)
          /\ loaded' = "ok"
     ELSE /\ loaded' = LoadExcept(LoadError(final_file, r))
          /\ snapshot' = IF loaded' = "caught" THEN <<>> ELSE snapshot
  /\ saved' = [saved EXCEPT !.read_back = saved.done]
  /\ UNCHANGED <<cacheVars, taskVars, obsVars, valid, fetchVars, pureVars,
                 final_file, temp_file, save_pc, save_list>>

\* a save that writes an empty snapshot like any other
SaveSkippedNever(d) == FALSE

\* save_cache_to_disk: "if not self.media_items: ... return" (lines
\* 260-262)
SaveSkipped(d) == d = <<>>

\* save_cache_to_disk up to its first file operation (lines 253-268)
SaveBegin(d) ==
  IF SaveSkipped(d)
  THEN /\ saved' = [prev |-> final_file, new |-> <<>>, done |-> TRUE,
                    read_back |-> FALSE]
       /\ UNCHANGED <<save_pc, save_list>>
  ELSE /\ save_list' = Values(d)
       /\ save_pc' = "open"
       /\ saved' = [prev |-> final_file, new |-> Values(d), done |-> FALSE,
              read_back |-> FALSE]

\* a call of save_cache_to_disk
SaveCall ==
  /\ loaded # "none"
  /\ save_pc = "idle"
  /\ SaveBegin(snapshot)
  /\ UNCHANGED <<cacheVars, taskVars, obsVars, valid, fetchVars, pureVars,
                 snapshot, final_file, temp_file, loaded>>

\* a refresh (initialize, lines 53-64; update_cache, lines 103-114): the
\* pipeline returns the filtered list of what was fetched, a non-empty
\* list is swapped in and save_cache_to_disk is called
Swap(fetched_items) ==
  /\ loaded # "none"
  /\ save_pc = "idle"
  /\ LET new_items == filter_quality_items(fetched_items)
     IN IF new_items = <<>>
        THEN UNCHANGED <<snapshot, save_pc, save_list, saved>>
        ELSE /\ snapshot' = DictFromList(new_items)
             /\ SaveBegin(snapshot')
  /\ UNCHANGED <<cacheVars, taskVars, obsVars, valid, fetchVars, pureVars,
                 final_file, temp_file, loaded>>

\* an exception inside save_cache_to_disk is logged and the call ends
\* (lines 298-299)
SaveExcept ==
  /\ save_pc' = "idle"
  /\ save_list' = <<>>
  /\ UNCHANGED <<final_file, temp_file, saved>>

\* aiofiles.open(temp_file, "w") and the write of "[" (lines 273-275)
SaveOpen(r) ==
  /\ save_pc = "open"
  /\ IF r = "success"
     THEN /\ temp_file' = TextFile(<<>>, FALSE)
          /\ save_pc' = "write"
          /\ UNCHANGED <<final_file, save_list, saved>>
     ELSE SaveExcept
  /\ UNCHANGED <<cacheVars, taskVars, obsVars, valid, fetchVars, pureVars,
                 snapshot, loaded>>

\* one "await f.write" of the loop (lines 278-282) or, after the last
\* item, the write of "]" and the close of the file (lines 289-290)
SaveWriteChunk(r) ==
  /\ save_pc = "write"
  /\ IF r # "success" THEN SaveExcept
     ELSE IF Len(temp_file.items) < Len(save_list)
     THEN /\ temp_file' = TextFile(Written(temp_file.items, save_list),
                                   FALSE)
          /\ UNCHANGED <<final_file, save_pc, save_list, saved>>
     ELSE /\ temp_file' = TextFile(temp_file.items, TRUE)
          /\ save_pc' = "unlink"
          /\ UNCHANGED <<final_file, save_list, saved>>
  /\ UNCHANGED <<cacheVars, taskVars, obsVars, valid, fetchVars, pureVars,
                 snapshot, loaded>>

\* "if self.cache_file_path.exists(): self.cache_file_path.unlink()"
\* (lines 293-294)
SaveUnlink(r) ==
  /\ save_pc = "unlink"
  /\ IF r = "success" \/ final_file.kind = "absent"
     THEN /\ final_file' = AbsentFile
          /\ save_pc' = "rename"
          /\ UNCHANGED <<temp_file, save_list, saved>>
     ELSE SaveExcept
  /\ UNCHANGED <<cacheVars, taskVars, obsVars, valid, fetchVars, pureVars,
                 snapshot, loaded>>

\* temp_file.rename(self.cache_file_path) (line 295); the call ends
SaveRename(r) ==
  /\ save_pc = "rename"
  /\ IF r = "success"
     THEN /\ final_file' = temp_file
          /\ temp_file' = AbsentFile
          /\ save_pc' = "idle"
          /\ save_list' = <<>>
          /\ saved' = [saved EXCEPT !.done = TRUE]
     ELSE SaveExcept
  /\ UNCHANGED <<cacheVars, taskVars, obsVars, valid, fetchVars, pureVars,
                 snapshot, loaded>>

\* the process dies; the next one starts with a new MediaCache object and
\* the files as they are
Crash ==
  /\ loaded # "none"
  /\ snapshot' = <<>>
  /\ save_pc' = "idle"
  /\ save_list' = <<>>
  /\ loaded' = "none"
  /\ UNCHANGED <<cacheVars, taskVars, obsVars, valid, fetchVars, pureVars,
                 final_file, temp_file, saved>>

NextStore ==
  \/ \E r \in {"success", "fail"} : Load(r)
  \/ SaveCall
  \/ \E l \in StoreLists : Swap(l)
  \/ \E r \in {"success", "fail"} : SaveOpen(r)
  \/ \E r \in {"success", "fail"} : SaveWriteChunk(r)
  \/ \E r \in {"success", "fail"} : SaveUnlink(r)
  \/ \E r \in {"success", "fail"} : SaveRename(r)
  \/ Crash

SpecStore == InitStore /\ [][NextStore]_vars

\* the complete file of the records the last save was to write
NewFile == TextFile(saved.new, TRUE)

\* C11: at every step of save_cache_to_disk, a crash at any point
\* included, the file at the final path is either the complete previous
\* file or the complete new file: it is never partial, and never missing
\* where a previous file existed.
C11_FinalFileOldOrNew == final_file = saved.prev \/ final_file = NewFile

\* a load_cache_from_disk call ends in this step
LoadEnds == loaded = "none" /\ loaded' # "none"

Unloadable(file) ==
  file.kind = "absent" \/ file.kind = "other" \/ ~file.closed

\* C13: load_cache_from_disk on a truncated or otherwise invalid file ends
\* with an empty snapshot and raises no error; on a missing file likewise.
C13_LoadInvalidFile ==
  [][(LoadEnds /\ Unloadable(final_file))
       => snapshot' = <<>> /\ loaded' # "raised"]_vars

\* C13 witness: the load of a truncated file that held a record has ended
\* with an empty snapshot
C13_Witness ==
  /\ loaded = "caught"
  /\ final_file.kind = "text"
  /\ ~final_file.closed
  /\ final_file.items # <<>>
  /\ snapshot = <<>>

\* C16: after any sequence of load, initialize, refresh and save, no
\* record of the in-memory snapshot or of a file written by
\* save_cache_to_disk has kind 'unknown' with empty genres, and none
\* consists of the 'Unknown Title' sentinel only.
C16_NoLowQualityRecord ==
  /\ \A i \in 1..Len(snapshot) : ~LowQuality(snapshot[i][2])
  /\ \A i \in 1..Len(temp_file.items) : ~LowQuality(temp_file.items[i])
  /\ final_file = NewFile
       => \A i \in 1..Len(final_file.items) : ~LowQuality(final_file.items[i])

\* the map holds, for every item of the list that is the last one with its
\* stringified id, that item under that id
C36_LastWins(data, d) ==
  \A i \in 1..Len(data) :
    (\A j \in (i + 1)..Len(data) :
       Str(data[j].rating_key) # Str(data[i].rating_key))
      => \E k \in 1..Len(d) : d[k] = <<Str(data[i].rating_key), data[i]>>

\* C36: in every reachable state every key of media_items equals the
\* stringified rating_key of the record stored under it, so a snapshot
\* holds at most one record per id; when a loaded list repeats an id, the
\* last occurrence wins.
C36_KeysAreIds ==
  [][/\ \A i \in 1..Len(snapshot') :
          snapshot'[i][1] = Str(snapshot'[i][2].rating_key)
     /\ \A i, j \in 1..Len(snapshot') :
          snapshot'[i][1] = snapshot'[j][1] => i = j
     /\ (LoadEnds /\ loaded' = "ok")
          => C36_LastWins(final_file.items, snapshot')]_vars

\* the file holds a record with the id 1 and then one with the id "1", and
\* the snapshot loaded from it holds the second one only
C36_Witness ==
  /\ loaded = "ok"
  /\ save_pc = "idle"
  /\ Len(final_file.items) = 2
  /\ final_file.items[1].rating_key = <<"int", 1>>
  /\ final_file.items[2].rating_key = <<"str", 1>>
  /\ snapshot = <<<<1, final_file.items[2]>>>>

\* C38: save_cache_to_disk called while the in-memory snapshot is empty
\* writes nothing: it creates no temp file and leaves any existing file at
\* the final cache path unchanged.
C38_EmptySaveWritesNothing ==
  [][(/\ save_pc = "idle"
      /\ snapshot = <<>>
      /\ snapshot' = <<>>
      /\ loaded' = loaded
      /\ saved' # saved)
       => /\ save_pc' = "idle"
          /\ temp_file' = temp_file
          /\ final_file' = final_file]_vars

\* a save of the empty snapshot has ended: there is no temp file and the
\* file that was there, holding a record, still is
C38_Witness ==
  /\ loaded # "none"
  /\ snapshot = <<>>
  /\ save_pc = "idle"
  /\ saved.done
  /\ saved.new = <<>>
  /\ temp_file = AbsentFile
  /\ final_file = saved.prev
  /\ final_file.kind = "text"
  /\ final_file.items # <<>>

====
